---- MODULE Spec2Model ----
(***************************************************************************)
(* Model of SuperScanner (src/app.py): the per-ticker analyser             *)
(* (calculate_indicators, analyze_stock) and the thread-pool scan          *)
(* (run_scan).                                                             *)
(*                                                                         *)
(* Floating point values are modelled as exact rationals [n, d] with the   *)
(* IEEE special values the code can produce: d = 0 and n = 0 is NaN,       *)
(* d = 0 and n = 1 / -1 is +inf / -inf.  Rounding error of binary          *)
(* floating point is not modelled.                                         *)
(***************************************************************************)
EXTENDS Integers, Sequences, FiniteSets, TLC

----------------------------------------------------------------------------
(* Bounds of the model *)

\* histories have up to MinBars + MaxExtraBars bars
MaxExtraBars == 1

----------------------------------------------------------------------------
(* Program constants *)

MinBars == 200
SmaFast == 50
SmaMid == 150
SmaSlow == 200
VolWindow == 20
RsiWindow == 14
RsiLow == 50
RsiHigh == 85
max_workers == 10

----------------------------------------------------------------------------
(* float arithmetic *)

NaN == [n |-> 0, d |-> 0]
Num(k) == [n |-> k, d |-> 1]

IsNaN(a) == a.d = 0 /\ a.n = 0
IsInf(a) == a.d = 0 /\ a.n # 0
IsFinite(a) == a.d # 0
IsZero(a) == a.d # 0 /\ a.n = 0

Abs(k) == IF k < 0 THEN -k ELSE k
Sign(k) == IF k > 0 THEN 1 ELSE IF k < 0 THEN -1 ELSE 0

RECURSIVE GCD(_, _)
GCD(a, b) == IF b = 0 THEN a ELSE GCD(b, a % b)

\* the rational n/d (d # 0) in lowest terms with a positive denominator
Norm(n, d) ==
    LET g == GCD(Abs(n), Abs(d))
        s == IF d < 0 THEN -1 ELSE 1
    IN  [n |-> s * (n \div g), d |-> s * (d \div g)]

Neg(a) == [n |-> -a.n, d |-> a.d]

Add(a, b) ==
    IF IsNaN(a) \/ IsNaN(b) THEN NaN
    ELSE IF IsInf(a) THEN (IF IsInf(b) /\ b.n # a.n THEN NaN ELSE a)
    ELSE IF IsInf(b) THEN b
    ELSE IF a.d = 1 /\ b.d = 1 THEN [n |-> a.n + b.n, d |-> 1]
    ELSE Norm(a.n * b.d + b.n * a.d, a.d * b.d)

Sub(a, b) == Add(a, Neg(b))

Mul(a, b) ==
    IF IsNaN(a) \/ IsNaN(b) THEN NaN
    ELSE IF IsInf(a) \/ IsInf(b)
         THEN (IF a.n = 0 \/ b.n = 0 THEN NaN
               ELSE [n |-> Sign(a.n) * Sign(b.n), d |-> 0])
    ELSE Norm(a.n * b.n, a.d * b.d)

\* division of numpy/pandas floats: x/0 is +-inf, 0/0 is NaN, nothing raises
Div(a, b) ==
    IF IsNaN(a) \/ IsNaN(b) THEN NaN
    ELSE IF IsInf(a) THEN (IF IsInf(b) THEN NaN
                           ELSE [n |-> a.n * (IF b.n < 0 THEN -1 ELSE 1), d |-> 0])
    ELSE IF IsInf(b) THEN Num(0)
    ELSE IF b.n = 0 THEN (IF a.n = 0 THEN NaN ELSE [n |-> Sign(a.n), d |-> 0])
    ELSE Norm(a.n * b.d, a.d * b.n)

\* a > b on floats: every comparison with NaN is False
Gt_nan_as_zero(a, b) ==
    LET x == IF IsNaN(a) THEN Num(0) ELSE a
        y == IF IsNaN(b) THEN Num(0) ELSE b
    IN  IF IsInf(x) THEN (x.n = 1 /\ ~(IsInf(y) /\ y.n = 1))
        ELSE IF IsInf(y) THEN y.n = -1
        ELSE x.n * y.d > y.n * x.d

Gt(a, b) ==
    IF IsNaN(a) \/ IsNaN(b) THEN FALSE
    ELSE IF IsInf(a) THEN (a.n = 1 /\ ~(IsInf(b) /\ b.n = 1))
    ELSE IF IsInf(b) THEN b.n = -1
    ELSE a.n * b.d > b.n * a.d

Lt(a, b) == Gt(b, a)

\* round(x, digits): nearest multiple of 10^-digits, ties to even
Pow10(k) == IF k = 0 THEN 1 ELSE IF k = 1 THEN 10 ELSE 100

Round(x, digits) ==
    IF ~IsFinite(x) THEN x
    ELSE LET m == x.n * Pow10(digits)
             q == m \div x.d
             r == m - q * x.d
             up == 2 * r > x.d \/ (2 * r = x.d /\ q % 2 = 1)
         IN  Norm(IF up THEN q + 1 ELSE q, Pow10(digits))

----------------------------------------------------------------------------
(* What the data source hands back for one ticker (yf.download, line 49).  *)
(* kind "raise": the call raises.  kind "malformed": a frame of len rows   *)
(* without the Close/Volume columns.  kind "frame": len daily bars; the    *)
(* closes of the last two bars (the rows the code reads) are tail, the     *)
(* bars before them have close = base; the last volume is vlast, the       *)
(* volumes before it are vbase.  macdLine,                                 *)
(* macdHistPrev and macdHist are what the pandas ewm recurrences of lines  *)
(* 23-28 give at the last two rows: the recurrence multiplies the          *)
(* denominator by 13, 27 and 5 at every bar, so it is taken as given.      *)

Close(df) ==
    [i \in 1..df.len |->
        LET k == i + Len(df.tail) - df.len
        IN  IF k >= 1 THEN df.tail[k] ELSE df.base]

Volume(df) ==
    [i \in 1..df.len |-> IF i = df.len THEN df.vlast ELSE df.vbase]

\* sum of col[lo..hi] (split in halves: the sum is exact, so the order of
\* the additions does not matter)
RECURSIVE SumRange(_, _, _)
SumRange(col, lo, hi) ==
    IF lo > hi THEN Num(0)
    ELSE IF lo = hi THEN col[lo]
    ELSE LET mid == (lo + hi) \div 2
         IN  Add(SumRange(col, lo, mid), SumRange(col, mid + 1, hi))

\* col.rolling(window).mean() at row i: NaN until the window is full, and
\* NaN when a value of the window is NaN
RollingMean(col, window, i) ==
    IF i < window THEN NaN
    ELSE Div(SumRange(col, i - window + 1, i), Num(window))

\* delta = Close.diff(): NaN at the first row
Delta(close, i) == IF i <= 1 THEN NaN ELSE Sub(close[i], close[i - 1])

\* gain = delta.where(delta > 0, 0), loss = -delta.where(delta < 0, 0):
\* where() keeps delta when the condition is True and puts 0 otherwise, so a
\* NaN delta becomes 0
Gain(close, n) == [i \in 1..n |->
    LET delta == Delta(close, i)
    IN  IF Gt(delta, Num(0)) THEN delta ELSE Num(0)]

Loss(close, n) == [i \in 1..n |->
    LET delta == Delta(close, i)
    IN  Neg(IF Lt(delta, Num(0)) THEN delta ELSE Num(0))]

AvgGain(df, i) == RollingMean(Gain(Close(df), df.len), RsiWindow, i)
AvgLoss(df, i) == RollingMean(Loss(Close(df), df.len), RsiWindow, i)

\* rs = avg_gain / avg_loss; RSI = 100 - 100 / (1 + rs)
RSI(df, i) ==
    LET rs == Div(AvgGain(df, i), AvgLoss(df, i))
    IN  Sub(Num(100), Div(Num(100), Add(Num(1), rs)))

\* calculate_indicators(df)[col] at row i (1-based; the code reads the last
\* two rows only)
Indicator(df, col, i) ==
    CASE col = "Close"     -> Close(df)[i]
      [] col = "Volume"    -> Volume(df)[i]
      [] col = "SMA_50"    -> RollingMean(Close(df), SmaFast, i)
      [] col = "SMA_150"   -> RollingMean(Close(df), SmaMid, i)
      [] col = "SMA_200"   -> RollingMean(Close(df), SmaSlow, i)
      [] col = "Vol_SMA"   -> RollingMean(Volume(df), VolWindow, i)
      [] col = "MACD_Line" -> IF i = df.len THEN df.macdLine ELSE NaN
      [] col = "MACD_Hist" -> IF i = df.len THEN df.macdHist ELSE df.macdHistPrev
      [] col = "RSI"       -> RSI(df, i)

----------------------------------------------------------------------------
(* analyze_stock *)

\* curr = df.iloc[-1], prev = df.iloc[-2]
curr(df, col) == Indicator(df, col, df.len)
prev(df, col) == Indicator(df, col, df.len - 1)

\* df.empty or len(df) < 200
InsufficientHistory_le(df) == df.len = 0 \/ df.len <= MinBars

InsufficientHistory(df) == df.len = 0 \/ df.len < MinBars

\* price > SMA_50 > SMA_150 > SMA_200
trend_strong(df) ==
    LET sma50 == curr(df, "SMA_50")
        sma150 == curr(df, "SMA_150")
    IN  /\ Gt(curr(df, "Close"), sma50)
        /\ Gt(sma50, sma150)
        /\ Gt(sma150, curr(df, "SMA_200"))

macd_above_zero(df) == Gt(curr(df, "MACD_Line"), Num(0))

macd_trigger(df) ==
    \/ (Lt(prev(df, "MACD_Hist"), Num(0)) /\ Gt(curr(df, "MACD_Hist"), Num(0)))
    \/ (Gt(curr(df, "MACD_Hist"), Num(0))
        /\ Gt(curr(df, "MACD_Hist"), prev(df, "MACD_Hist")))

rsi_check(df) ==
    LET rsi == curr(df, "RSI")
    IN  Lt(Num(RsiLow), rsi) /\ Lt(rsi, Num(RsiHigh))

\* Volume / Vol_SMA if Vol_SMA > 0 else 0
vol_ratio(df) ==
    LET vol_sma == curr(df, "Vol_SMA")
    IN  IF Gt(vol_sma, Num(0)) THEN Div(curr(df, "Volume"), vol_sma) ELSE Num(0)

\* vol_ratio > 1.2
vol_check(df) == Gt(vol_ratio(df), Norm(12, 10))

AllGates(df) ==
    trend_strong(df) /\ macd_above_zero(df) /\ macd_trigger(df)
        /\ rsi_check(df) /\ vol_check(df)

None == [kind |-> "None"]
Raised == [kind |-> "raise"]

\* the dict of lines 89-96
Record(ticker, df) ==
    LET price == curr(df, "Close")
        pc0 == prev(df, "Close")
    IN  [kind      |-> "dict",
         symbol    |-> ticker,
         price     |-> Round(price, 2),
         change    |-> Round(Mul(Div(Sub(price, pc0), pc0), Num(100)), 2),
         vol_ratio |-> Round(vol_ratio(df), 2),
         rsi       |-> Round(curr(df, "RSI"), 2),
         score     |-> Round(Add(curr(df, "RSI"), Mul(vol_ratio(df), Num(10))), 0)]

\* the body of the try block (lines 48-96): the value returned, or Raised
\* when a statement raises.  A frame without the Close column raises KeyError
\* in calculate_indicators; the division of two Python floats in 'change'
\* raises ZeroDivisionError when float(prev['Close']) is 0.
TryBlock(ticker, resp) ==
    IF resp.kind = "raise" THEN Raised
    ELSE IF InsufficientHistory(resp) THEN None
    ELSE IF resp.kind = "malformed" THEN Raised
    ELSE IF AllGates(resp)
         THEN (IF IsZero(prev(resp, "Close")) THEN Raised ELSE Record(ticker, resp))
         ELSE None

\* line 56 is reached
IndicatorsComputed(resp) == resp.kind # "raise" /\ ~InsufficientHistory(resp)

analyze_stock_no_except(ticker, resp) == TryBlock(ticker, resp)

\* try: ... except Exception: return None
analyze_stock(ticker, resp) ==
    LET r == TryBlock(ticker, resp)
    IN  IF r = Raised THEN None ELSE r

----------------------------------------------------------------------------
(* inputs *)

CloseVals == {Num(0), Num(5), Num(10), Num(30), NaN}
Bases == {Num(10)}
Tails == CloseVals \X CloseVals
Vols == {[vbase |-> Num(100), vlast |-> Num(200)],
         [vbase |-> Num(47),  vlast |-> Num(57)],
         [vbase |-> Num(0),   vlast |-> Num(0)],
         [vbase |-> Num(100), vlast |-> NaN]}
MacdLines == {Num(0), Num(1), NaN}
MacdHists == {Num(-1), Num(1), Num(2), NaN}
Lens == {0, 1, MinBars - 1} \cup (MinBars..(MinBars + MaxExtraBars))

Frames ==
    {[kind |-> "frame", len |-> l, base |-> b, tail |-> t,
      vbase |-> v.vbase, vlast |-> v.vlast,
      macdLine |-> m, macdHistPrev |-> hp, macdHist |-> hc] :
        l \in Lens, b \in Bases, t \in Tails, v \in Vols,
        m \in MacdLines, hp \in MacdHists, hc \in MacdHists}

Malformed == {[kind |-> "malformed", len |-> l] : l \in Lens}

Responses == {[kind |-> "raise"]} \cup Malformed \cup Frames

----------------------------------------------------------------------------
(* run_scan *)

\* what the data source answers during a scan: it raises, it hands back a
\* frame without the Close column, it has no signal (a flat history), or one
\* of two histories that pass with scores 102 and 111
NoSignal ==
    [kind |-> "frame", len |-> MinBars, base |-> Num(10),
     tail |-> <<Num(10), Num(10)>>,
     vbase |-> Num(100), vlast |-> Num(200),
     macdLine |-> Num(0), macdHistPrev |-> Num(0), macdHist |-> Num(0)]

PassLo ==
    [kind |-> "frame", len |-> MinBars, base |-> Num(10),
     tail |-> <<Num(5), Num(30)>>,
     vbase |-> Num(100), vlast |-> Num(200),
     macdLine |-> Num(1), macdHistPrev |-> Num(-1), macdHist |-> Num(1)]

PassHi == [PassLo EXCEPT !.vlast = Num(300)]

NoClose == [kind |-> "malformed", len |-> MinBars]

ScanResponses == {[kind |-> "raise"], NoClose, NoSignal, PassLo, PassHi}

\* results.sort(key=lambda x: x['score'], reverse=True): list.sort is stable,
\* and with reverse=True records with equal keys still keep their order.  The
\* record at position i goes behind the records with a greater score and the
\* earlier records with the same score.
SortDesc_reversed(rs) ==
    LET rank(i) == 1 + Cardinality({j \in 1..Len(rs) : Gt(rs[j].score, rs[i].score)})
                     + Cardinality({j \in (i + 1)..Len(rs) : rs[j].score = rs[i].score})
    IN  [p \in 1..Len(rs) |-> rs[CHOOSE i \in 1..Len(rs) : rank(i) = p]]

SortDesc(rs) ==
    LET rank(i) == 1 + Cardinality({j \in 1..Len(rs) : Gt(rs[j].score, rs[i].score)})
                     + Cardinality({j \in 1..(i - 1) : rs[j].score = rs[i].score})
    IN  [p \in 1..Len(rs) |-> rs[CHOOSE i \in 1..Len(rs) : rank(i) = p]]

\* if res:
Truthy(r) == r.kind = "dict"

----------------------------------------------------------------------------
VARIABLES
    apc, answer, out, caught, computed,  \* one call of analyze_stock
    tickers,    \* the universe of the scan (line 114)
    source,     \* what the data source answers for each ticker
    pc,         \* where run_scan is: "submit", "collect", "done", "error"
    futures,    \* the futures submitted so far: state and result
    calls,      \* per ticker, the invocations of analyze_stock started
    fetches,    \* per ticker, the calls of yf.download
    next,          \* the future the for loop of line 127 waits for
    results,    \* the list of line 121
    response,   \* what run_scan returned
    overtaken   \* history: a task finished before one submitted earlier

avars == <<apc, answer, out, caught, computed>>
svars == <<tickers, source, pc, futures, calls, fetches, next, results, response,
           overtaken>>
vars == <<apc, answer, out, caught, computed,
          tickers, source, pc, futures, calls, fetches, next, results, response,
          overtaken>>

ScanIdle ==
    /\ tickers = << >>
    /\ source = << >>
    /\ pc = "idle"
    /\ futures = << >>
    /\ calls = << >>
    /\ fetches = << >>
    /\ next = 1
    /\ results = << >>
    /\ response = None
    /\ overtaken = FALSE

AnalyzeIdle ==
    /\ apc = "idle"
    /\ answer = [kind |-> "raise"]
    /\ out = None
    /\ caught = FALSE
    /\ computed = FALSE

InitAnalyze ==
    /\ apc = "call"
    /\ answer \in Responses
    /\ out = None
    /\ caught = FALSE
    /\ computed = FALSE
    /\ ScanIdle

\* one call analyze_stock("T") against a data source that answers answer
Analyze ==
    /\ apc = "call"
    /\ apc' = "returned"
    /\ out' = analyze_stock("T", answer)
    /\ caught' = (TryBlock("T", answer) = Raised)
    /\ computed' = IndicatorsComputed(answer)
    /\ UNCHANGED answer
    /\ UNCHANGED svars

NextAnalyze == Analyze

SpecAnalyze == InitAnalyze /\ [][NextAnalyze]_vars

----------------------------------------------------------------------------
(* The scan.  ThreadPoolExecutor(max_workers=10) keeps a FIFO queue of the  *)
(* submitted work items and at most max_workers threads, each taking the    *)
(* item at the head of the queue when it is idle.                           *)

\* bounds of the universes
MaxSmallUniverse == 3
LargeUniverse == 11

\* what analyze_stock(t) returns when the data source answers r, for the
\* tickers and the answers of a scan
Analyzed ==
    [t \in 1..LargeUniverse, r \in ScanResponses |-> analyze_stock(t, r)]

Running == {i \in 1..Len(futures) : futures[i].state = "running"}
Pending == {i \in 1..Len(futures) : futures[i].state = "pending"}

Ascending(n) == [i \in 1..n |-> i]
Descending(n) == [i \in 1..n |-> n + 1 - i]

InitScan ==
    /\ \/ \E n \in 1..MaxSmallUniverse :
            /\ tickers \in {Ascending(n), Descending(n)}
            /\ source \in [1..n -> ScanResponses]
       \/ /\ tickers = Ascending(LargeUniverse)
          /\ \E a \in {PassLo}, b \in {[kind |-> "raise"], PassHi} :
                source = [t \in 1..LargeUniverse |-> IF t % 3 = 0 THEN b ELSE a]
    /\ pc = "submit"
    /\ futures = << >>
    /\ calls = [t \in DOMAIN source |-> 0]
    /\ fetches = [t \in DOMAIN source |-> 0]
    /\ next = 1
    /\ results = << >>
    /\ response = None
    /\ overtaken = FALSE
    /\ AnalyzeIdle

\* executor.submit(analyze_stock, t) for the next ticker of the list (line 126)
Submit ==
    /\ pc = "submit"
    /\ Len(futures) < Len(tickers)
    /\ futures' = Append(futures, [state |-> "pending", result |-> None])
    /\ pc' = IF Len(futures) + 1 = Len(tickers) THEN "collect" ELSE "submit"
    /\ UNCHANGED <<tickers, source, calls, fetches, next, results, response>>
    /\ UNCHANGED <<avars, overtaken>>

\* an idle worker thread takes the work item at the head of the queue and
\* calls analyze_stock, which calls yf.download (line 49)
WorkerStart_unbounded(i) ==
    /\ i \in Pending
    /\ \A j \in Pending : i <= j
    /\ futures' = [futures EXCEPT ![i].state = "running"]
    /\ calls' = [calls EXCEPT ![tickers[i]] = @ + 1]
    /\ fetches' = [fetches EXCEPT ![tickers[i]] = @ + 1]
    /\ UNCHANGED <<tickers, source, pc, next, results, response>>
    /\ UNCHANGED <<avars, overtaken>>

WorkerStart_oneshot(i) ==
    /\ i \in Pending
    /\ \A j \in Pending : i <= j
    /\ i <= max_workers
    /\ futures' = [futures EXCEPT ![i].state = "running"]
    /\ calls' = [calls EXCEPT ![tickers[i]] = @ + 1]
    /\ fetches' = [fetches EXCEPT ![tickers[i]] = @ + 1]
    /\ UNCHANGED <<tickers, source, pc, next, results, response>>
    /\ UNCHANGED <<avars, overtaken>>

WorkerStart(i) ==
    /\ i \in Pending
    /\ \A j \in Pending : i <= j
    /\ Cardinality(Running) < max_workers
    /\ futures' = [futures EXCEPT ![i].state = "running"]
    /\ calls' = [calls EXCEPT ![tickers[i]] = @ + 1]
    /\ fetches' = [fetches EXCEPT ![tickers[i]] = @ + 1]
    /\ UNCHANGED <<tickers, source, pc, next, results, response>>
    /\ UNCHANGED <<avars, overtaken>>

\* the download of task i returns or raises, analyze_stock runs to its end
\* and the future gets its result (or the exception that left analyze_stock)
WorkerFinish_retry(i) ==
    /\ i \in Running
    /\ IF source[tickers[i]].kind = "raise" /\ fetches[tickers[i]] < 2
       THEN /\ fetches' = [fetches EXCEPT ![tickers[i]] = @ + 1]
            /\ UNCHANGED futures
       ELSE /\ futures' = [futures EXCEPT ![i] =
                   [state |-> "finished",
                    result |-> Analyzed[tickers[i], source[tickers[i]]]]]
            /\ UNCHANGED fetches
    /\ UNCHANGED <<tickers, source, pc, calls, next, results, response>>
    /\ overtaken' = (overtaken \/ \E j \in 1..(i - 1) : futures[j].state # "finished")
    /\ UNCHANGED avars

WorkerFinish(i) ==
    /\ i \in Running
    /\ futures' = [futures EXCEPT ![i] =
            [state |-> "finished",
             result |-> Analyzed[tickers[i], source[tickers[i]]]]]
    /\ UNCHANGED <<tickers, source, pc, calls, fetches, next, results, response>>
    /\ overtaken' = (overtaken \/ \E j \in 1..(i - 1) : futures[j].state # "finished")
    /\ UNCHANGED avars

\* one round of the for loop (lines 127-130): future.result() waits for the
\* task and re-raises what the task raised
Collect_no_wait ==
    /\ pc = "collect"
    /\ next <= Len(futures)
    /\ IF futures[next].state = "finished" /\ futures[next].result = Raised
       THEN /\ pc' = "error"
            /\ response' = [kind |-> "error"]
            /\ UNCHANGED <<next, results>>
       ELSE /\ results' = IF futures[next].state = "finished" /\ Truthy(futures[next].result)
                          THEN Append(results, futures[next].result)
                          ELSE results
            /\ next' = next + 1
            /\ UNCHANGED <<pc, response>>
    /\ UNCHANGED <<tickers, source, futures, calls, fetches>>
    /\ UNCHANGED <<avars, overtaken>>

Collect ==
    /\ pc = "collect"
    /\ next <= Len(futures)
    /\ futures[next].state = "finished"
    /\ IF futures[next].result = Raised
       THEN /\ pc' = "error"
            /\ response' = [kind |-> "error"]
            /\ UNCHANGED <<next, results>>
       ELSE /\ results' = IF Truthy(futures[next].result)
                          THEN Append(results, futures[next].result)
                          ELSE results
            /\ next' = next + 1
            /\ UNCHANGED <<pc, response>>
    /\ UNCHANGED <<tickers, source, futures, calls, fetches>>
    /\ UNCHANGED <<avars, overtaken>>

\* the loop is over: the with block ends (shutdown(wait=True) waits for the
\* worker threads), the list is sorted and returned (lines 133-134)
Return ==
    /\ pc = "collect"
    /\ next > Len(futures)
    /\ Running = {}
    /\ results' = SortDesc(results)
    /\ response' = [kind |-> "ok", body |-> SortDesc(results)]
    /\ pc' = "done"
    /\ UNCHANGED <<tickers, source, futures, calls, fetches, next>>
    /\ UNCHANGED <<avars, overtaken>>

NextScan ==
    \/ Submit
    \/ \E i \in 1..Len(futures) : WorkerStart(i)
    \/ \E i \in 1..Len(futures) : WorkerFinish(i)
    \/ Collect
    \/ Return

SpecScan == InitScan /\ [][NextScan]_vars

\* the thread of run_scan keeps running, an idle worker thread takes the
\* head of the queue, and a download that is under way returns or raises
Fairness ==
    /\ WF_vars(Submit \/ Collect \/ Return)
    /\ WF_vars(\E i \in 1..Len(futures) : WorkerStart(i))
    /\ WF_vars(\E i \in 1..Len(futures) : WorkerFinish(i))

LiveScan == SpecScan /\ Fairness

----------------------------------------------------------------------------
(* Properties of run_scan *)

Done == pc = "done"
Body == response.body
Faults(t) == TryBlock(t, source[t]) = Raised
Passes(t) == TryBlock(t, source[t]).kind = "dict"
RecordsOf(t) == {j \in 1..Len(Body) : Body[j].symbol = t}
UniversePos(t) == CHOOSE p \in 1..Len(tickers) : tickers[p] = t

\* C1: whatever tickers fault (the download or the evaluation raises), no
\* error reaches the caller of run_scan, and the list returned holds exactly
\* one record, the one the analysis yields, for every ticker that passes
\* without a fault, and none for a ticker that faults.
C1_FaultsIsolated ==
    /\ pc # "error"
    /\ Done =>
        /\ response.kind = "ok"
        /\ \A t \in DOMAIN source :
            /\ Faults(t) => RecordsOf(t) = {}
            /\ Passes(t) =>
                /\ Cardinality(RecordsOf(t)) = 1
                /\ \A j \in RecordsOf(t) : Body[j] = TryBlock(t, source[t])
            /\ ~Passes(t) => RecordsOf(t) = {}

\* a universe of 3 tickers, one faulting, has returned the two passing records
C1_Witness ==
    /\ Done
    /\ Len(tickers) = 3
    /\ Cardinality({t \in DOMAIN source : Faults(t)}) = 1
    /\ Cardinality({t \in DOMAIN source : Passes(t)}) = 2
    /\ Len(Body) = 2

\* C2: the list returned is ordered by score descending, and of two records
\* with equal scores the one whose ticker comes first in the universe comes
\* first; this holds in every final state, whatever the order in which the
\* tasks ran and finished.
C2_RankedStable ==
    Done =>
        \A i \in 1..Len(Body) : \A j \in (i + 1)..Len(Body) :
            \/ Gt(Body[i].score, Body[j].score)
            \/ /\ Body[i].score = Body[j].score
               /\ UniversePos(Body[i].symbol) < UniversePos(Body[j].symbol)

\* a returned list in which the sort moved a later ticker ahead of an earlier
\* one, two records tie, and the tasks finished out of submission order
C2_Witness ==
    /\ Done
    /\ overtaken
    /\ \E i \in 1..Len(Body) : \E j \in (i + 1)..Len(Body) :
            /\ Gt(Body[i].score, Body[j].score)
            /\ UniversePos(Body[i].symbol) > UniversePos(Body[j].symbol)
    /\ \E i \in 1..Len(Body) : \E j \in (i + 1)..Len(Body) :
            Body[i].score = Body[j].score

\* C3: run_scan has an output only when every ticker has been submitted and
\* every task has finished, and the output holds exactly one record for every
\* task whose result is not None, the task's result, and nothing else.
C3_AllCollected ==
    /\ response # None =>
        /\ Len(futures) = Len(tickers)
        /\ \A i \in 1..Len(futures) : futures[i].state = "finished"
    /\ Done =>
        /\ \A i \in 1..Len(futures) :
              IF futures[i].result # None
              THEN /\ Cardinality(RecordsOf(tickers[i])) = 1
                   /\ \A j \in RecordsOf(tickers[i]) : Body[j] = futures[i].result
              ELSE RecordsOf(tickers[i]) = {}
        /\ Len(Body) =
              Cardinality({i \in 1..Len(futures) : futures[i].result # None})

\* tasks finished out of submission order; the output has the records of the
\* first and the last task and none for the absent one between them
C3_Witness ==
    /\ Done
    /\ overtaken
    /\ Len(futures) = 3
    /\ futures[1].result # None
    /\ futures[2].result = None
    /\ futures[3].result # None
    /\ Len(Body) = 2

\* C4: at most max_workers (10) invocations of analyze_stock are running at
\* any time, also for a universe of more than 10 tickers.
C4_BoundedWorkers == Cardinality(Running) <= 10

\* all 10 workers are busy and a ticker waits in the queue
C4_Witness ==
    /\ Cardinality(Running) = 10
    /\ Pending # {}
    /\ Len(tickers) > 10

\* C9: analyze_stock is started at most once per entry of the universe, exactly
\* once by the time run_scan returns, and it calls the data source once; a
\* ticker whose download raised is not fetched again and its result is None.
C9_OneFetch ==
    /\ \A t \in DOMAIN source : calls[t] <= 1 /\ fetches[t] <= calls[t]
    /\ Len(futures) <= Len(tickers)
    /\ Done => \A t \in DOMAIN source : calls[t] = 1 /\ fetches[t] = 1
    /\ \A i \in 1..Len(futures) :
          (futures[i].state = "finished" /\ source[tickers[i]].kind = "raise") =>
              /\ futures[i].result = None
              /\ fetches[tickers[i]] = 1

\* run_scan returned after a download had raised
C9_Witness ==
    /\ Done
    /\ \E t \in DOMAIN source : source[t].kind = "raise" /\ fetches[t] = 1
    /\ \E t \in DOMAIN source : Passes(t)

\* C10: when every download returns or raises and the threads keep running,
\* run_scan returns, also for a universe larger than the pool.
C10_Terminates == <>(pc = "done")

\* run_scan returned for a universe of more than 10 tickers
C10_Witness == Done /\ Len(tickers) > 10 /\ response.kind = "ok"

----------------------------------------------------------------------------
(* Properties of analyze_stock *)

Returned == apc = "returned"
IsFrame == answer.kind = "frame"
Absent(v) == IsNaN(v)

\* C5: a history that is empty or has fewer than 200 bars gives None, without
\* an exception and without the indicators being computed; a history of
\* exactly 200 bars gets past this check.
C5_ShortHistory ==
    (Returned /\ answer.kind # "raise") =>
        /\ (answer.len = 0 \/ answer.len < 200) =>
              out = None /\ ~caught /\ ~computed
        /\ answer.len = 200 => computed

\* 199 bars of a history that passes every gate with 200 bars
C5_Witness ==
    /\ Returned
    /\ IsFrame
    /\ answer.len = 199
    /\ AllGates([answer EXCEPT !.len = 200])
    /\ out = None

\* the four gates as the specification states them
ClaimTrend(df) ==
    /\ Gt(curr(df, "Close"), curr(df, "SMA_50"))
    /\ Gt(curr(df, "SMA_50"), curr(df, "SMA_150"))
    /\ Gt(curr(df, "SMA_150"), curr(df, "SMA_200"))
ClaimMomentum(df) ==
    /\ Gt(curr(df, "MACD_Line"), Num(0))
    /\ \/ Lt(prev(df, "MACD_Hist"), Num(0)) /\ Gt(curr(df, "MACD_Hist"), Num(0))
       \/ Gt(curr(df, "MACD_Hist"), Num(0))
            /\ Gt(curr(df, "MACD_Hist"), prev(df, "MACD_Hist"))
ClaimStrength(df) ==
    Gt(curr(df, "RSI"), Num(50)) /\ Lt(curr(df, "RSI"), Num(85))
ClaimVolRatio(df) ==
    IF Gt(curr(df, "Vol_SMA"), Num(0))
    THEN Div(curr(df, "Volume"), curr(df, "Vol_SMA")) ELSE Num(0)
ClaimVolume(df) == Gt(Mul(ClaimVolRatio(df), Num(10)), Num(12))

RequiredAbsent(df) ==
    \/ Absent(curr(df, "MACD_Line"))
    \/ Absent(curr(df, "MACD_Hist"))
    \/ Absent(prev(df, "MACD_Hist"))
    \/ Absent(curr(df, "Vol_SMA"))
    \/ Absent(curr(df, "RSI"))
    \/ Absent(curr(df, "SMA_50"))
    \/ Absent(curr(df, "SMA_150"))
    \/ Absent(curr(df, "SMA_200"))

\* C6: with at least 200 bars and every required value present, a record is
\* returned exactly when trend, momentum, strength band and volume surge all
\* hold at the last row.
C6_RecordIffGates ==
    (Returned /\ IsFrame /\ answer.len >= 200 /\ ~RequiredAbsent(answer)) =>
        (out.kind = "dict" <=>
            /\ ClaimTrend(answer)
            /\ ClaimMomentum(answer)
            /\ ClaimStrength(answer)
            /\ ClaimVolume(answer))

\* C7: wherever the 14-bar window is populated the rsi is in [0, 100], and it
\* is 100 whenever the average loss is 0, a flat history included.
C7_RsiRange ==
    (Returned /\ IsFrame /\ computed) =>
        \A i \in 14..answer.len :
            /\ ~Gt(Num(0), RSI(answer, i))
            /\ ~Gt(RSI(answer, i), Num(100))
            /\ ~Absent(RSI(answer, i))
            /\ IsZero(AvgLoss(answer, i)) => RSI(answer, i) = Num(100)

\* C8: when a value a gate reads is absent at the last or the previous row,
\* the gate that reads it does not pass, the result is None and nothing is
\* raised.
C8_AbsentNeverPasses ==
    (Returned /\ IsFrame /\ answer.len >= 200) =>
        LET sma50 == curr(answer, "SMA_50")
            sma150 == curr(answer, "SMA_150")
            sma200 == curr(answer, "SMA_200")
            volSma20 == curr(answer, "Vol_SMA")
            rsi == curr(answer, "RSI")
            macdLine == curr(answer, "MACD_Line")
            macdHist == curr(answer, "MACD_Hist")
            prevHist == prev(answer, "MACD_Hist")
        IN  /\ (Absent(sma50) \/ Absent(sma150) \/ Absent(sma200)
                  \/ Absent(volSma20) \/ Absent(rsi) \/ Absent(macdLine)
                  \/ Absent(macdHist) \/ Absent(prevHist))
                  => out = None /\ ~caught
            /\ (Absent(sma50) \/ Absent(sma150) \/ Absent(sma200))
                  => ~trend_strong(answer)
            /\ Absent(macdLine) => ~macd_above_zero(answer)
            /\ (Absent(macdHist) \/ Absent(prevHist)) => ~macd_trigger(answer)
            /\ Absent(rsi) => ~rsi_check(answer)
            /\ Absent(volSma20) => ~vol_check(answer)

\* only the previous row's histogram is absent: trend, strength and volume
\* pass, the line is above zero and the histogram at the last row is positive
C8_Witness ==
    /\ Returned
    /\ IsFrame
    /\ answer.len >= 200
    /\ Absent(prev(answer, "MACD_Hist"))
    /\ ClaimTrend(answer)
    /\ ClaimStrength(answer)
    /\ ClaimVolume(answer)
    /\ Gt(curr(answer, "MACD_Line"), Num(0))
    /\ Gt(curr(answer, "MACD_Hist"), Num(0))
    /\ out = None

====
